---- MODULE Spec2Model ----
(***************************************************************************)
(* Model of the crawl engine of pdf-site-extractor (src/pdf_crawler.py)   *)
(* and of its download batches (src/pdf_crawler.py, src/download_pdfs.py). *)
(*                                                                         *)
(* A Python str is modelled as a sequence of one-character strings, so    *)
(* that split, startswith, endswith, lower, urlparse and urljoin are      *)
(* computed character by character as the library computes them.           *)
(* The scheme "http" is abbreviated to the single letter "h".              *)
(***************************************************************************)
EXTENDS Integers, Sequences, FiniteSets, TLC

(***************************************************************************)
(* str helpers.  They are functions, so that an argument is a value: a     *)
(* Python call evaluates its arguments before the call.                    *)
(***************************************************************************)

\* the characters URLs, hrefs and file names are written in
Letters == {"h", "e", "o", "a", "b", "c", "d", "f", "p", "t", "v", "x", "y", "z",
            "u", "m", "n", "w", "P", "D", "F"}
Digits == {"0", "1", "2", "3", "4", "5", "6", "7", "8", "9"}
\* letters outside ASCII, each written as its code point
NonAscii == {"U+00E9"}
Chars ==
    Letters \cup Digits \cup NonAscii \cup
    {":", "/", "?", "#", ".", "[", "]", "!", "-", "_", "@"}
Strs == Seq(Chars)

\* s.find(c) + 1 for a set of characters: index of the first character of s
\* that is in cs, 0 when there is none
FindAny[s \in Strs, cs \in SUBSET Chars] ==
    IF \E i \in 1..Len(s) : s[i] \in cs
    THEN CHOOSE i \in 1..Len(s) : s[i] \in cs /\ \A j \in 1..(i-1) : s[j] \notin cs
    ELSE 0

\* s.rfind(c) + 1: index of the last occurrence of c in s, 0 when there is none
RFind[s \in Strs, c \in Chars] ==
    IF \E i \in 1..Len(s) : s[i] = c
    THEN CHOOSE i \in 1..Len(s) : s[i] = c /\ \A j \in (i+1)..Len(s) : s[j] # c
    ELSE 0

\* s[:n] and s[n:] (n counted in characters, as Python slices)
Take[s \in Strs, n \in Int] == SubSeq(s, 1, IF n < Len(s) THEN n ELSE Len(s))
Drop[s \in Strs, n \in Int] == SubSeq(s, n + 1, Len(s))

\* str.startswith / str.endswith
StartsWith[s \in Strs, p \in Strs] == Len(p) <= Len(s) /\ SubSeq(s, 1, Len(p)) = p
EndsWith[s \in Strs, p \in Strs] ==
    Len(p) <= Len(s) /\ SubSeq(s, Len(s) - Len(p) + 1, Len(s)) = p

\* str.lower on the alphabet of the model
LowerChar(c) ==
    CASE c = "P" -> "p"
      [] c = "D" -> "d"
      [] c = "F" -> "f"
      [] OTHER -> c
Lower[s \in Strs] == [i \in 1..Len(s) |-> LowerChar(s[i])]

\* s cut before position i: <<s[:i-1], s[i-1:]>>, and <<s, "">> for i = 0
CutAt[s \in Strs, i \in Int] ==
    IF i = 0 THEN <<s, <<>>>> ELSE <<Take[s, i - 1], Drop[s, i - 1]>>

\* s cut before its first character that is in cs
Partition[s \in Strs, cs \in SUBSET Chars] == CutAt[s, FindAny[s, cs]]

\* s.split('#')[0]
SplitFragment[s \in Strs] == Partition[s, {"#"}][1]

\* ord(c) on the alphabet of the model
Ord ==
    ("!" :> 33) @@ ("#" :> 35) @@ ("-" :> 45) @@ ("." :> 46) @@ ("/" :> 47) @@
    ("0" :> 48) @@ ("1" :> 49) @@ ("2" :> 50) @@ ("3" :> 51) @@ ("4" :> 52) @@
    ("5" :> 53) @@ ("6" :> 54) @@ ("7" :> 55) @@ ("8" :> 56) @@ ("9" :> 57) @@
    (":" :> 58) @@ ("?" :> 63) @@ ("@" :> 64) @@ ("D" :> 68) @@ ("F" :> 70) @@ ("P" :> 80) @@
    ("[" :> 91) @@ ("]" :> 93) @@ ("_" :> 95) @@ ("a" :> 97) @@ ("b" :> 98) @@
    ("c" :> 99) @@ ("d" :> 100) @@ ("e" :> 101) @@ ("f" :> 102) @@ ("h" :> 104) @@
    ("m" :> 109) @@ ("n" :> 110) @@ ("o" :> 111) @@ ("p" :> 112) @@ ("t" :> 116) @@
    ("u" :> 117) @@ ("v" :> 118) @@ ("w" :> 119) @@ ("x" :> 120) @@ ("y" :> 121) @@
    ("z" :> 122) @@ ("U+00E9" :> 233)

\* index of the first position at which s and t differ, 0 when one is a
\* prefix of the other
FirstDiff[s \in Strs, t \in Strs] ==
    IF \E i \in 1..Len(s) : i <= Len(t) /\ s[i] # t[i]
    THEN CHOOSE i \in 1..Len(s) :
             i <= Len(t) /\ s[i] # t[i] /\ \A j \in 1..(i-1) : s[j] = t[j]
    ELSE 0

\* s < t as Python compares two str: by code point, a proper prefix first
StrLess[s \in Strs, t \in Strs] ==
    IF FirstDiff[s, t] = 0 THEN Len(s) < Len(t)
    ELSE Ord[s[FirstDiff[s, t]]] < Ord[t[FirstDiff[s, t]]]

\* str(d) for one decimal digit
DigitChar == <<"0", "1", "2", "3", "4", "5", "6", "7", "8", "9">>

\* str(n) for an int
ToStr[n \in Int] ==
    IF n < 0 THEN <<"-">> \o ToStr[-n]
    ELSE IF n < 10 THEN <<DigitChar[n + 1]>>
    ELSE ToStr[n \div 10] \o <<DigitChar[(n % 10) + 1]>>

\* os.path.basename
Basename[path \in Strs] == Drop[path, RFind[path, "/"]]

(***************************************************************************)
(* urllib.parse, as called from pdf_crawler.py                             *)
(***************************************************************************)
\* urlsplit's scheme_chars on the alphabet of the model
SchemeChars == Letters \cup Digits \cup {"-", "."}

\* what urlparse returns; err stands for the ValueError("Invalid IPv6 URL")
\* that urlsplit raises on an unbalanced bracket in the netloc
ParseResults ==
    [err : BOOLEAN, scheme : Strs, netloc : Strs, path : Strs, query : Strs,
     fragment : Strs]

\* urlsplit, scheme: <<scheme, rest>> for the position c of the first ":"
SplitScheme[url \in Strs, defscheme \in Strs, c \in Int] ==
    IF c > 1 /\ url[1] \in Letters /\ \A j \in 1..(c-1) : url[j] \in SchemeChars
    THEN <<Lower[Take[url, c - 1]], Drop[url, c]>>
    ELSE <<defscheme, url>>

\* urlsplit, netloc: <<netloc, rest>>
SplitNetloc[rest \in Strs] ==
    IF StartsWith[rest, <<"/", "/">>]
    THEN Partition[Drop[rest, 2], {"/", "?", "#"}]
    ELSE <<<<>>, rest>>

\* urlsplit's test for an unbalanced bracket in the netloc
BadNetloc[netloc \in Strs] ==
    (\E i \in 1..Len(netloc) : netloc[i] = "[") # (\E i \in 1..Len(netloc) : netloc[i] = "]")

\* urlsplit, last step: pq is <<path, "?" + query>> or <<path, "">>
ParseQuery[scheme \in Strs, netloc \in Strs, fragment \in Strs, pq \in Seq(Strs)] ==
    [err |-> BadNetloc[netloc], scheme |-> scheme, netloc |-> netloc,
     path |-> pq[1], query |-> Drop[pq[2], 1], fragment |-> fragment]

\* urlsplit, fragment: uf is <<url, "#" + fragment>> or <<url, "">>
ParseFragment[scheme \in Strs, netloc \in Strs, uf \in Seq(Strs)] ==
    ParseQuery[scheme, netloc, Drop[uf[2], 1], Partition[uf[1], {"?"}]]

\* urlsplit after the netloc: nr is <<netloc, rest>>
ParseRest[scheme \in Strs, nr \in Seq(Strs)] ==
    ParseFragment[scheme, nr[1], Partition[nr[2], {"#"}]]

\* urlsplit after the scheme: sr is <<scheme, rest>>
ParseNetloc[sr \in Seq(Strs)] == ParseRest[sr[1], SplitNetloc[sr[2]]]

\* urlparse(url, scheme)
urlparse[url \in Strs, defscheme \in Strs] ==
    ParseNetloc[SplitScheme[url, defscheme, FindAny[url, {":"}]]]

\* urlunparse, netloc and path
UnparseNetloc[netloc \in Strs, path \in Strs] ==
    IF netloc # <<>>
    THEN <<"/", "/">> \o netloc
         \o (IF path # <<>> /\ Head(path) # "/" THEN <<"/">> ELSE <<>>) \o path
    ELSE path

\* s, with sep and t appended when t is not empty
WithPart[s \in Strs, sep \in Strs, t \in Strs] == IF t # <<>> THEN s \o sep \o t ELSE s

\* urlunparse(parts)
urlunparse[p \in ParseResults] ==
    WithPart[
        WithPart[
            IF p.scheme # <<>> THEN p.scheme \o <<":">> \o UnparseNetloc[p.netloc, p.path]
                               ELSE UnparseNetloc[p.netloc, p.path],
            <<"?">>, p.query],
        <<"#">>, p.fragment]

\* the value urljoin raises instead of returning
JoinError == <<"!">>

\* urljoin's merge of a relative path with the directory of the base path
MergePath[dir \in Strs, path \in Strs] ==
    IF StartsWith[path, <<"/">>] THEN path
    ELSE (IF dir = <<>> THEN <<"/">> ELSE dir) \o path

\* urljoin on the parsed base b and the parsed reference u
JoinParsed[url \in Strs, b \in ParseResults, u \in ParseResults] ==
    IF b.err \/ u.err THEN JoinError
    ELSE IF u.scheme # b.scheme THEN url
    ELSE IF u.netloc # <<>> THEN urlunparse[u]
    ELSE IF u.path = <<>>
         THEN urlunparse[[u EXCEPT !.netloc = b.netloc, !.path = b.path,
                            !.query = IF u.query = <<>> THEN b.query ELSE u.query]]
    ELSE urlunparse[[u EXCEPT !.netloc = b.netloc,
                       !.path = MergePath[Take[b.path, RFind[b.path, "/"]], u.path]]]

\* urljoin on the parsed base b
JoinBase[url \in Strs, b \in ParseResults] == JoinParsed[url, b, urlparse[url, b.scheme]]

\* urljoin(base, url) for an http base and hrefs without dot segments
urljoin[base \in Strs, url \in Strs] ==
    IF base = <<>> THEN url
    ELSE IF url = <<>> THEN base
    ELSE JoinBase[url, urlparse[base, <<>>]]

(***************************************************************************)
(* The web the crawler runs against: URLs and sites                        *)
(***************************************************************************)
HE == <<"h", ":", "/", "/", "e">>          \* http://e   (the scope domain)
HO == <<"h", ":", "/", "/", "o">>          \* http://o   (another domain)

U_A    == HE \o <<"/", "a">>                               \* http://e/a
U_AT   == HE \o <<"/", "a", "#", "t">>                     \* http://e/a#t
U_AB   == HE \o <<"/", "a", "/", "b">>                     \* http://e/a/b
U_AD   == HE \o <<"/", "a", "/", "d">>                     \* http://e/a/d
U_AF   == HE \o <<"/", "a", "/", "f">>                     \* http://e/a/f
U_AX   == HE \o <<"/", "a", "x">>                          \* http://e/ax
U_C    == HE \o <<"/", "c">>                               \* http://e/c
U_OA   == HO \o <<"/", "a">>                               \* http://o/a
U_PDF  == HE \o <<"/", "a", "/", "x", ".", "p", "d", "f">> \* http://e/a/x.pdf
U_OPDF == HO \o <<"/", "y", ".", "P", "D", "F">>           \* http://o/y.PDF
U_CPDF == HE \o <<"/", "c", ".", "p", "d", "f">>           \* http://e/c.pdf
U_QPDF == HE \o <<"/", "a", "/", "b", "?", ".", "p", "d", "f">>      \* http://e/a/b?.pdf
U_PDFQ == HE \o <<"/", "a", "/", "z", ".", "p", "d", "f", "?", "v">> \* http://e/a/z.pdf?v

\* hrefs as they stand in the anchors of a page
H_AB    == <<"/", "a", "/", "b">>                     \* /a/b
H_ABT   == <<"/", "a", "/", "b", "#", "t">>           \* /a/b#t
H_AD    == <<"/", "a", "/", "d">>                     \* /a/d
H_AF    == <<"/", "a", "/", "f">>                     \* /a/f
H_AX    == <<"/", "a", "x">>                          \* /ax
H_C     == <<"/", "c">>                               \* /c
H_T     == <<"#", "t">>                               \* #t
H_RPDF  == <<"x", ".", "p", "d", "f">>                \* x.pdf (relative)
H_CPDF  == <<"/", "c", ".", "p", "d", "f">>           \* /c.pdf
H_QPDF  == <<"/", "a", "/", "b", "?", ".", "p", "d", "f">>
H_PDFQ  == <<"/", "a", "/", "z", ".", "p", "d", "f", "?", "v">>
H_BAD   == <<"h", ":", "/", "/", "[">>                \* http://[  (urljoin raises)

\* A site maps the URL the server sees (no fragment) to the hrefs of the
\* <a> tags of the page, in document order.
SiteScope ==
    (U_A  :> <<H_AB, U_PDF, U_OPDF, U_OA, H_C, H_T, H_AX, H_ABT>>) @@
    (U_AB :> <<U_A, H_RPDF, H_QPDF, H_PDFQ, H_CPDF>>) @@
    (U_AX :> <<H_AB, U_AT>>) @@
    (U_PDF :> <<U_PDF, H_AB>>)

SiteRaise ==
    (U_A  :> <<U_PDF, H_AB, H_BAD, H_AD>>) @@
    (U_AB :> <<H_AD, U_OPDF>>) @@
    (U_AD :> <<H_CPDF, H_BAD>>)

SiteDiamond ==
    (U_A  :> <<H_AB, H_AD>>) @@
    (U_AB :> <<H_AF, U_A, U_PDF>>) @@
    (U_AD :> <<H_AF, H_AB>>) @@
    (U_AF :> <<U_OPDF, H_AB, H_AX>>) @@
    (U_AX :> <<H_CPDF>>)

Sites == {SiteScope, SiteRaise, SiteDiamond}
StartUrls == {U_A, U_AT, U_AB, U_PDF}

\* bounds of the crawl depth given to the constructor
MinDepth == -1
MaxDepth == 2

\* bounds of the delay given to the constructor, in seconds
MinDelay == -1
MaxDelay == 1

\* a start URL without scheme and netloc
R_A == <<"e", "/", "a">>

\* PDFs for the download batches: a second x.pdf, on another host, and a
\* link whose path ends in "/"
U_OXPDF == <<"h", ":", "/", "/", "o", "/", "x", ".", "p", "d", "f">>
H_DIRPDF == <<"/", "a", "/", "?", ".", "p", "d", "f">>

\* root pages that list PDFs: found out of sorted order, with one file name
\* twice, with an upper-case suffix, with a suffix in the query only
SiteNames == (U_A :> <<U_PDF, U_OXPDF, U_OPDF, H_QPDF, H_AB>>)
SiteDir == (U_A :> <<H_DIRPDF, H_CPDF, H_AB>>)
SiteNone == (U_A :> <<H_AB>>)
DlSites == {SiteNames, SiteDir, SiteNone}

\* values of hash(url), which differs from one interpreter run to the next
HashValues == {-1, 12}

(***************************************************************************)
(* PDFCrawler                                                              *)
(***************************************************************************)
VARIABLES
    base_url,       \* self.base_url
    max_depth,      \* self.max_depth
    site,           \* the web site the session's GETs are answered from
    delay,          \* self.delay
    visited_urls,   \* self.visited_urls
    pdf_urls,       \* self.pdf_urls
    queue,          \* crawl's deque of <<url, depth>>
    pc,             \* "init" before crawl(), "loop" inside its while, "done" after,
                    \* "raised" when crawl was left by an exception;
                    \* "dl_loop"/"dl_done" in and after download_pdfs,
                    \* "file_loop"/"file_done" in and after download_from_file,
                    \* "dl_raised"/"file_raised" when os.makedirs raised,
                    \* "exited" when the process was ended
    fetched,        \* history: URLs a GET was issued for
    refetched,      \* history: URLs a GET was issued for more than once
    failed,         \* history: URLs whose get_page_links took the except branch
    enqueued,       \* history: URLs ever appended to the deque
    dequeued,       \* history: URLs ever popped from the deque
    enq_order,      \* history: the entries appended by this crawl(), in order
    deq_order,      \* history: the entries popped by this crawl(), in order
    last,           \* history: what the latest loop iteration did
    unslept,        \* history: a GET was issued and no time.sleep has returned since
    dl_order,       \* the list a download batch iterates over
    dl_i,           \* 1-based position in dl_order of the next item
    files,          \* the output directory: file name -> what the file holds
    got,            \* history: the URLs of the download GETs, in order
    named,          \* history: the file name derived for each item, in order
    dl_failed,      \* history: the URLs whose download item took its except branch
    pdf_list,       \* the saved PDF list: whether the file exists, and its lines
    dir_creatable,  \* environment: the output directory can be created
    mkdir_failed,   \* history: os.makedirs of the output directory raised
    answers,        \* environment: how the server answers a GET of a page, for
                    \* the pages whose answer is fixed ("ok", "status", "error")
    san_url,        \* the argument of a call of sanitize_domain
    san_result,     \* whether the call returned, whether it raised, and its value
    f_visited,      \* find_all_pdfs: visited
    f_pdfs,         \* find_all_pdfs: pdfs
    f_queue,        \* find_all_pdfs: queue
    f_fetched,      \* history: the URLs find_all_pdfs called session.get on
    f_refetched,    \* history: the URLs it called session.get on again
    old_files,      \* environment: the names in pdfs_path when run_crawler starts
    metadata,       \* the metadata run_crawler saved
    dirs,           \* the session directories that exist
    sm,             \* the session manager: the prompt it is at and the
                    \* sessions the prompt is about
    deletions,      \* history: each directory removed, with the confirmation typed
    refusals        \* history: the confirmations after which nothing was removed

dlvars == <<dl_order, dl_i, files, got, named, dl_failed, pdf_list, dir_creatable,
            mkdir_failed>>

crawlvars == <<base_url, max_depth, delay, site, visited_urls, pdf_urls, queue,
               fetched, refetched, failed, enqueued, dequeued, enq_order,
               deq_order, last>>

vars == <<base_url, max_depth, delay, site, visited_urls, pdf_urls, queue, pc,
          fetched, refetched, failed, enqueued, dequeued, enq_order, deq_order,
          last, unslept, dl_order, dl_i, files, got, named, dl_failed, pdf_list,
          dir_creatable, mkdir_failed, answers, san_url, san_result, f_visited,
          f_pdfs, f_queue, f_fetched, f_refetched, old_files, metadata, dirs,
          sm, deletions, refusals>>

sanvars == <<san_url, san_result>>

findervars == <<f_visited, f_pdfs, f_queue, f_fetched, f_refetched>>

runvars == <<old_files, metadata>>

sessionvars == <<dirs, sm, deletions, refusals>>

othervars == <<answers, sanvars, findervars, runvars, sessionvars>>

\* self.base_domain
base_domain == urlparse[base_url, <<>>].netloc

DotPdf == <<".", "p", "d", "f">>

\* PDFCrawler.is_pdf
is_pdf(url) == EndsWith[Lower[url], DotPdf]

\* the tests of is_valid_url on parsed = urlparse(url) and
\* base_path = urlparse(self.base_url).path; urlparse's ValueError is
\* reported as "raise"
ValidParsed(parsed, base_path) ==
    IF parsed.err THEN "raise"
    ELSE IF parsed.netloc # base_domain THEN "no"
    ELSE IF ~StartsWith[parsed.path, base_path] THEN "no"
    ELSE "yes"

\* is_valid_url without its path test
is_valid_url_domain_only(url) == ValidParsed(urlparse[url, <<>>], <<>>)

\* PDFCrawler.is_valid_url
is_valid_url(url) == ValidParsed(urlparse[url, <<>>], urlparse[base_url, <<>>].path)

\* the body the server returns for a GET of url: the fragment is not sent
Content(url) ==
    IF SplitFragment[url] \in DOMAIN site THEN site[SplitFragment[url]] ELSE <<>>

\* the elif of get_page_links on the result of is_valid_url
PageOrSkip(valid) ==
    IF valid = "raise" THEN "raise" ELSE IF valid = "yes" THEN "page" ELSE "skip"

\* the if/elif with the scope test ahead of the PDF test
Classify_scope_first(full_url) ==
    IF is_valid_url(full_url) = "raise" THEN "raise"
    ELSE IF is_valid_url(full_url) # "yes" THEN "skip"
    ELSE IF is_pdf(full_url) THEN "pdf" ELSE "page"

\* the if/elif with an in-scope link taken as a page whatever its suffix
Classify_pages_first(full_url) ==
    IF is_valid_url(full_url) = "raise" THEN "raise"
    ELSE IF is_valid_url(full_url) = "yes" THEN "page"
    ELSE IF is_pdf(full_url) THEN "pdf" ELSE "skip"

\* the if/elif of get_page_links on one resolved link: add it to
\* self.pdf_urls ("pdf"), add it to links ("page"), drop it ("skip"), or
\* leave the loop on urlparse's exception ("raise")
Classify(full_url) ==
    IF is_pdf(full_url) THEN "pdf" ELSE PageOrSkip(is_valid_url(full_url))

\* the fragment removed from what urljoin returned; its exception is passed on
StripJoined[joined \in Strs] ==
    IF joined = JoinError THEN JoinError ELSE SplitFragment[joined]

\* urljoin(url, href).split('#')[0]
Resolve[url \in Strs, href \in Strs] == StripJoined[urljoin[url, href]]

\* what happens to one resolved link
KindOf(full_url) == IF full_url = JoinError THEN "raise" ELSE Classify(full_url)

\* The for loop of get_page_links over hrefs[i..], with the links and the PDFs
\* collected so far; raised is set when urljoin or urlparse raises.
RECURSIVE LinkLoop(_, _, _, _, _)

\* the loop body on the resolved link and its kind
LinkStep(url, hrefs, i, links, pdfs, full_url, kind) ==
    CASE kind = "raise" -> [raised |-> TRUE, links |-> links, pdfs |-> pdfs]
      [] kind = "pdf"   -> LinkLoop(url, hrefs, i + 1, links, pdfs \cup {full_url})
      [] kind = "page"  -> LinkLoop(url, hrefs, i + 1, links \cup {full_url}, pdfs)
      [] OTHER          -> LinkLoop(url, hrefs, i + 1, links, pdfs)

LinkLoop(url, hrefs, i, links, pdfs) ==
    IF i > Len(hrefs) THEN [raised |-> FALSE, links |-> links, pdfs |-> pdfs]
    ELSE LinkStep(url, hrefs, i, links, pdfs,
                  Resolve[url, hrefs[i]], KindOf(Resolve[url, hrefs[i]]))

\* an except branch that returns the links collected before the exception
OnError_keep_links(links) == links

\* what get_page_links returns in its except branch
OnError(links) == {}

\* an except branch that empties self.pdf_urls
KeptPdfs_clear(pdfs) == {}

\* self.pdf_urls after the except branch of get_page_links, which does not
\* touch it
KeptPdfs(pdfs) == pdfs

\* the return of get_page_links after its for loop ended as r
LinksResult(r) ==
    IF r.raised
    THEN [links |-> OnError(r.links), pdfs |-> KeptPdfs(r.pdfs), error |-> TRUE]
    ELSE [links |-> r.links, pdfs |-> r.pdfs, error |-> FALSE]

\* PDFCrawler.get_page_links(url).  ok is whether the GET, raise_for_status
\* and the BeautifulSoup constructor all succeed; pdfs is self.pdf_urls
\* before the call.  Returns the links, the new self.pdf_urls and whether
\* the except branch ran.
get_page_links(url, ok, pdfs) ==
    IF ~ok THEN [links |-> OnError({}), pdfs |-> KeptPdfs(pdfs), error |-> TRUE]
    ELSE LinksResult(LinkLoop(url, Content(url), 1, {}, pdfs))

\* session.get sends a request only for a URL with a scheme and a host;
\* for any other URL it raises before anything is sent
Sendable(url) ==
    /\ ~urlparse[url, <<>>].err
    /\ urlparse[url, <<>>].scheme # <<>>
    /\ urlparse[url, <<>>].netloc # <<>>

\* how the server answers a GET of url: "ok" (2xx with the page), "status"
\* (a non-2xx status with the page as its body), "error" (no response), or
\* "any" where the answer is not fixed
Answer(url) ==
    IF SplitFragment[url] \in DOMAIN answers THEN answers[SplitFragment[url]] ELSE "any"

\* whether the GET, raise_for_status and the parse of the body can succeed
Responses(url) ==
    IF ~Sendable(url) THEN {FALSE}
    ELSE IF Answer(url) = "any" THEN BOOLEAN
    ELSE {Answer(url) = "ok"}

\* a crawl loop without its time.sleep
Sleep_none(d) == "none"

\* time.sleep(d): a negative d raises ValueError
Sleep(d) == IF d < 0 THEN "raise" ELSE "slept"

\* the orders in which a for loop may iterate over a Python set
Orders(S) ==
    {o \in [1..Cardinality(S) -> S] : \A i, j \in 1..Cardinality(S) : i # j => o[i] # o[j]}

\* the depth guard written with >= max_depth + 2
TooDeep_off_by_one(depth) == depth > max_depth + 1

\* the depth guard written with >=, which skips the pages at max_depth
TooDeep_at_max(depth) == depth >= max_depth

\* the guard "depth > self.max_depth" of the loop of crawl
TooDeep(depth) == depth > max_depth

\* a loop of crawl that appends every link it is given
IsNew_unchecked(link, visited) == TRUE

\* the test "link not in self.visited_urls" of the loop of crawl
IsNew(link, visited) == link \notin visited

\* queue[0] read without removing it
PopLeft_peek(q) == q

\* the rest of the deque after queue.popleft()
PopLeft(q) == Tail(q)

\* an entry put at the left end of the deque
Enqueue_front(q, entry) == <<entry>> \o q

\* queue.append(entry)
Enqueue(q, entry) == Append(q, entry)

\* the for loop of crawl over the links in iteration order o[i..]:
\* first component the visited set, second the deque
RECURSIVE AddLinks(_, _, _, _, _)
AddLinks(o, i, depth, visited, q) ==
    IF i > Len(o) THEN <<visited, q>>
    ELSE IF IsNew(o[i], visited)
         THEN AddLinks(o, i + 1, depth, visited \cup {o[i]}, Enqueue(q, <<o[i], depth + 1>>))
         ELSE AddLinks(o, i + 1, depth, visited, q)

QueueUrls(q) == {q[i][1] : i \in 1..Len(q)}

\* the URLs of the entries that were appended to a deque of length n to give q
Appended(q, n) == {q[i][1] : i \in (n + 1)..Len(q)}

\* the entries that were appended to a deque of length n to give q, in order
NewEntries(q, n) == SubSeq(q, n + 1, Len(q))

\* length of the record of the dequeued entries
MaxLog == 8

\* the record of the dequeued entries after e was dequeued; it keeps the
\* first MaxLog of them
Logged(log, e) == IF Len(log) < MaxLog THEN Append(log, e) ELSE log

NoMetadata == [saved |-> FALSE, pages_scanned |-> 0, pdfs_found |-> 0, pdfs_downloaded |-> 0]

\* the session manager is not running
NoManager == [at |-> "off", sel |-> {}]

\* run_crawler and the session manager are not used
NoSession ==
    /\ old_files = {}
    /\ metadata = NoMetadata
    /\ dirs = {}
    /\ sm = NoManager
    /\ deletions = {}
    /\ refusals = {}

\* sanitize_domain is not called
NotCalled ==
    /\ san_url = <<>>
    /\ san_result = [done |-> FALSE, raised |-> FALSE, domain |-> <<>>]

\* the fields and the history after PDFCrawler.__init__, and the locals of
\* find_all_pdfs before its call
Constructed ==
    /\ visited_urls = {}
    /\ pdf_urls = {}
    /\ queue = <<>>
    /\ pc = "init"
    /\ fetched = {}
    /\ refetched = {}
    /\ failed = {}
    /\ enqueued = {}
    /\ dequeued = {}
    /\ enq_order = <<>>
    /\ deq_order = <<>>
    /\ last = "none"
    /\ unslept = FALSE
    /\ dl_order = <<>>
    /\ dl_i = 1
    /\ files = <<>>
    /\ got = <<>>
    /\ named = <<>>
    /\ dl_failed = {}
    /\ pdf_list = [exists |-> FALSE, lines |-> <<>>]
    /\ mkdir_failed = FALSE
    /\ f_visited = {}
    /\ f_pdfs = {}
    /\ f_queue = <<>>
    /\ f_fetched = {}
    /\ f_refetched = {}

\* the state after PDFCrawler.__init__
Init ==
    /\ base_url \in StartUrls
    /\ max_depth \in MinDepth..MaxDepth
    /\ delay \in 0..MaxDelay
    /\ site \in Sites
    /\ Constructed
    /\ dir_creatable = TRUE
    /\ NoSession
    /\ answers = <<>>
    /\ NotCalled

\* crawl, up to the while loop: seed the deque with the start URL
CrawlStart ==
    /\ pc = "init"
    /\ queue' = <<<<base_url, 0>>>>
    /\ visited_urls' = visited_urls \cup {base_url}
    /\ enqueued' = enqueued \cup {base_url}
    /\ enq_order' = Append(enq_order, <<base_url, 0>>)
    /\ pc' = "loop"
    /\ last' = "start"
    /\ UNCHANGED <<base_url, max_depth, delay, site, pdf_urls, fetched, refetched,
                   failed, dequeued, deq_order, unslept, dlvars, othervars>>

\* one iteration of the while loop that takes the "continue" of the depth guard
CrawlSkip ==
    /\ pc = "loop"
    /\ queue # <<>>
    /\ TooDeep(Head(queue)[2])
    /\ queue' = PopLeft(queue)
    /\ dequeued' = dequeued \cup {Head(queue)[1]}
    /\ deq_order' = Logged(deq_order, Head(queue))
    /\ last' = "skip"
    /\ UNCHANGED <<base_url, max_depth, delay, site, visited_urls, pdf_urls, pc,
                   fetched, refetched, failed, enqueued, enq_order, unslept, dlvars, othervars>>

\* one iteration of the while loop that fetches the page: popleft,
\* get_page_links, the for loop over the links in any iteration order of
\* the set, sleep.  r is what get_page_links returned and a the visited set
\* and the deque after the for loop.  An exception of time.sleep is not
\* caught and ends crawl.
CrawlFetch ==
    /\ pc = "loop"
    /\ queue # <<>>
    /\ ~TooDeep(Head(queue)[2])
    /\ \E url \in {Head(queue)[1]} :
       \E ok \in Responses(url) :
       \E r \in {get_page_links(url, ok, pdf_urls)} :
       \E o \in Orders(r.links) :
       \E a \in {AddLinks(o, 1, Head(queue)[2], visited_urls, PopLeft(queue))} :
         /\ visited_urls' = a[1]
         /\ queue' = a[2]
         /\ pdf_urls' = r.pdfs
         /\ fetched' = IF Sendable(url) THEN fetched \cup {url} ELSE fetched
         /\ refetched' = IF url \in fetched THEN refetched \cup {url} ELSE refetched
         /\ failed' = IF r.error THEN failed \cup {url} ELSE failed
         /\ enqueued' = enqueued \cup Appended(a[2], Len(PopLeft(queue)))
         /\ dequeued' = dequeued \cup {url}
         /\ enq_order' = enq_order \o NewEntries(a[2], Len(PopLeft(queue)))
         /\ deq_order' = Logged(deq_order, Head(queue))
         /\ last' = IF r.error THEN "fetch_failed" ELSE "fetch_ok"
         /\ unslept' = IF Sleep(delay) = "slept" THEN FALSE ELSE (unslept \/ Sendable(url))
    /\ pc' = IF Sleep(delay) = "raise" THEN "raised" ELSE "loop"
    /\ UNCHANGED <<base_url, max_depth, delay, site, dlvars, othervars>>

\* the while loop ends on the empty deque; crawl prints its totals and returns
CrawlDone ==
    /\ pc = "loop"
    /\ queue = <<>>
    /\ pc' = "done"
    /\ last' = "return"
    /\ UNCHANGED <<base_url, max_depth, delay, site, visited_urls, pdf_urls, queue,
                   fetched, refetched, failed, enqueued, dequeued, enq_order,
                   deq_order, unslept, dlvars, othervars>>

Next == CrawlStart \/ CrawlSkip \/ CrawlFetch \/ CrawlDone

Spec == Init /\ [][Next]_vars

\* crawl runs in one thread that never blocks for ever: every GET has a
\* timeout and every sleep is finite, so an enabled step is eventually taken
LiveSpec == Spec /\ WF_vars(Next)

\* a configuration that section 3 of the contract rules out: a negative
\* depth, a negative delay, or a start URL that is not absolute
InvalidConfig ==
    \/ max_depth < 0
    \/ delay < 0
    \/ urlparse[base_url, <<>>].scheme = <<>>
    \/ urlparse[base_url, <<>>].netloc = <<>>

\* PDFCrawler.__init__ called with an invalid configuration: it stores its
\* arguments as they are
ConfigInit ==
    /\ base_url \in StartUrls \cup {R_A}
    /\ max_depth \in MinDepth..MaxDepth
    /\ delay \in MinDelay..MaxDelay
    /\ site \in Sites
    /\ InvalidConfig
    /\ Constructed
    /\ dir_creatable = TRUE
    /\ NoSession
    /\ answers = <<>>
    /\ NotCalled

ConfigSpec == ConfigInit /\ [][Next]_vars

\* the caller invokes crawl() once more on the same PDFCrawler object; the
\* history of the entries is kept per invocation
CrawlAgain ==
    /\ pc = "done"
    /\ pc' = "init"
    /\ last' = "again"
    /\ enq_order' = <<>>
    /\ deq_order' = <<>>
    /\ UNCHANGED <<base_url, max_depth, delay, site, visited_urls, pdf_urls, queue,
                   fetched, refetched, failed, enqueued, dequeued, unslept, dlvars, othervars>>

ReCrawlNext == Next \/ CrawlAgain

\* a KeyboardInterrupt arrives while crawl is in its loop (in session.get,
\* in the parse or in time.sleep): it is no Exception, so neither
\* get_page_links nor run_crawler catches it; crawl is left without a
\* return and the handler of __main__ ends the process
Interrupt ==
    /\ pc = "loop"
    /\ pc' = "exited"
    /\ last' = "interrupted"
    /\ UNCHANGED <<base_url, max_depth, delay, site, visited_urls, pdf_urls, queue,
                   fetched, refetched, failed, enqueued, dequeued, enq_order,
                   deq_order, unslept, dlvars, othervars>>

InterruptNext == Next \/ Interrupt

InterruptSpec == Init /\ [][InterruptNext]_vars

ReCrawlSpec == Init /\ [][ReCrawlNext]_vars

(***************************************************************************)
(* Download batches                                                        *)
(***************************************************************************)

\* sorted(S) with the order reversed
sorted_reverse(S) ==
    CHOOSE o \in Orders(S) : \A i, j \in 1..Cardinality(S) : i < j => StrLess[o[j], o[i]]

\* sorted(S) for a set of str
sorted(S) ==
    CHOOSE o \in Orders(S) : \A i, j \in 1..Cardinality(S) : i < j => StrLess[o[i], o[j]]

\* a fallback name that does not use the position of the item
FallbackName_fixed(i) == <<"d", "o", "c", "u", "m", "e", "n", "t", "_">> \o ToStr[1] \o DotPdf

\* f"document_{i}.pdf"
FallbackName(i) == <<"d", "o", "c", "u", "m", "e", "n", "t", "_">> \o ToStr[i] \o DotPdf

\* the test "not filename or not filename.endswith('.pdf')"
NeedsFallback[filename \in Strs] == filename = <<>> \/ ~EndsWith[filename, DotPdf]

\* the file name download_pdfs derives for item i
Filename(url, i) ==
    IF NeedsFallback[Basename[urlparse[url, <<>>].path]]
    THEN FallbackName(i)
    ELSE Basename[urlparse[url, <<>>].path]

\* the file name download_pdf derives, hsh being hash(url)
HashFilename(url, hsh) ==
    IF NeedsFallback[Basename[urlparse[url, <<>>].path]]
    THEN FallbackName(hsh)
    ELSE Basename[urlparse[url, <<>>].path]

\* how the try block of one item can end: the GET or raise_for_status
\* raises, open raises, f.write raises after open has truncated the file,
\* or the body is written
ItemOutcomes == {"get_failed", "open_failed", "write_failed", "ok"}

\* the output directory after the item: open(filepath, 'wb') empties the
\* file, f.write(response.content) fills it
WriteFile(fs, name, url, outcome) ==
    CASE outcome = "ok"           -> (name :> [url |-> url, complete |-> TRUE]) @@ fs
      [] outcome = "write_failed" -> (name :> [url |-> url, complete |-> FALSE]) @@ fs
      [] OTHER                    -> fs

\* an except branch that leaves the for loop
OnItemError_abort(i, n) == n + 1

\* the position after an item whose except branch ran: the except is inside
\* the for loop, which goes on with the next item
OnItemError(i, n) == i + 1

\* the position after item i of n that ended as outcome
AfterItem(i, n, outcome) == IF outcome = "ok" THEN i + 1 ELSE OnItemError(i, n)

\* download_pdfs reaches its time.sleep only when nothing raised before it
SleptAfter(outcome) == outcome = "ok" /\ Sleep(delay) = "slept"

\* a download that goes on although os.makedirs raised
AfterMakedirs_ignore(ok, loop, raised) == loop

\* where control is after os.makedirs(output_dir, exist_ok=True), which is
\* outside any try: in the for loop, or back in the caller with the OSError
AfterMakedirs(ok, loop, raised) == IF ok THEN loop ELSE raised

\* download_pdfs up to its for loop: return at once when there is no PDF,
\* else create the directory and sort the URLs
DownloadStart ==
    /\ pc = "done"
    /\ IF pdf_urls = {}
       THEN pc' = "dl_done" /\ UNCHANGED <<dl_order, mkdir_failed>>
       ELSE /\ pc' = AfterMakedirs(dir_creatable, "dl_loop", "dl_raised")
            /\ mkdir_failed' = ~dir_creatable
            /\ dl_order' = IF pc' = "dl_loop" THEN sorted(pdf_urls) ELSE dl_order
    /\ dl_i' = 1
    /\ UNCHANGED <<crawlvars, othervars, unslept, files, got, named, dl_failed, pdf_list,
                   dir_creatable>>

\* one iteration of the for loop of download_pdfs: file name, GET, write, sleep
DownloadItem ==
    /\ pc = "dl_loop"
    /\ dl_i <= Len(dl_order)
    /\ \E outcome \in ItemOutcomes :
       \E url \in {dl_order[dl_i]} :
       \E name \in {Filename(url, dl_i)} :
         /\ named' = Append(named, name)
         /\ got' = Append(got, url)
         /\ files' = WriteFile(files, name, url, outcome)
         /\ dl_failed' = IF outcome = "ok" THEN dl_failed ELSE dl_failed \cup {url}
         /\ unslept' = ~SleptAfter(outcome)
         /\ dl_i' = AfterItem(dl_i, Len(dl_order), outcome)
    /\ UNCHANGED <<crawlvars, othervars, pc, dl_order, pdf_list, dir_creatable, mkdir_failed>>

\* the for loop of download_pdfs is exhausted
DownloadEnd ==
    /\ pc = "dl_loop"
    /\ dl_i > Len(dl_order)
    /\ pc' = "dl_done"
    /\ UNCHANGED <<crawlvars, unslept, dlvars, othervars>>

\* a PDF list written in descending order
save_pdf_list_reversed(S) == sorted_reverse(S)

\* the lines save_pdf_list writes (PDFCrawler.save_pdf_list and
\* utils.save_pdf_list have the same loop): one URL per line
save_pdf_list(S) == sorted(S)

\* save_pdf_list after the crawl
SavePdfList ==
    /\ pc = "done"
    /\ ~pdf_list.exists
    /\ pdf_list' = [exists |-> TRUE, lines |-> save_pdf_list(pdf_urls)]
    /\ UNCHANGED <<crawlvars, othervars, pc, unslept, dl_order, dl_i, files, got, named,
                   dl_failed, dir_creatable, mkdir_failed>>

\* the lines of the list file that download_from_file keeps: the non-empty
\* ones that do not start with "#"
ListedUrls(lines) == SelectSeq(lines, LAMBDA u : u # <<>> /\ ~StartsWith[u, <<"#">>])

\* download_from_file on the saved list up to its for loop: return when the
\* file is missing or lists no URL, else create the directory
FileStart ==
    /\ pc = "done"
    /\ IF ~pdf_list.exists \/ ListedUrls(pdf_list.lines) = <<>>
       THEN pc' = "file_done" /\ UNCHANGED <<dl_order, mkdir_failed>>
       ELSE /\ pc' = AfterMakedirs(dir_creatable, "file_loop", "file_raised")
            /\ mkdir_failed' = ~dir_creatable
            /\ dl_order' = IF pc' = "file_loop" THEN ListedUrls(pdf_list.lines)
                           ELSE dl_order
    /\ dl_i' = 1
    /\ UNCHANGED <<crawlvars, othervars, unslept, files, got, named, dl_failed, pdf_list,
                   dir_creatable>>

\* one iteration of the for loop of download_from_file: download_pdf(url)
FileItem ==
    /\ pc = "file_loop"
    /\ dl_i <= Len(dl_order)
    /\ \E outcome \in ItemOutcomes :
       \E hsh \in HashValues :
       \E url \in {dl_order[dl_i]} :
       \E name \in {HashFilename(url, hsh)} :
         /\ named' = Append(named, name)
         /\ got' = Append(got, url)
         /\ files' = WriteFile(files, name, url, outcome)
         /\ dl_failed' = IF outcome = "ok" THEN dl_failed ELSE dl_failed \cup {url}
         /\ unslept' = TRUE
         /\ dl_i' = AfterItem(dl_i, Len(dl_order), outcome)
    /\ UNCHANGED <<crawlvars, othervars, pc, dl_order, pdf_list, dir_creatable, mkdir_failed>>

\* the for loop of download_from_file is exhausted
FileEnd ==
    /\ pc = "file_loop"
    /\ dl_i > Len(dl_order)
    /\ pc' = "file_done"
    /\ UNCHANGED <<crawlvars, unslept, dlvars, othervars>>

\* a crawl of depth 0 of a root page that lists PDFs
DlInit ==
    /\ base_url = U_A
    /\ max_depth = 0
    /\ delay \in 0..MaxDelay
    /\ site \in DlSites
    /\ Constructed
    /\ dir_creatable \in BOOLEAN
    /\ NoSession
    /\ answers = <<>>
    /\ NotCalled

DlNext ==
    \/ Next
    \/ DownloadStart \/ DownloadItem \/ DownloadEnd
    \/ SavePdfList
    \/ FileStart \/ FileItem \/ FileEnd

DownloadSpec == DlInit /\ [][DlNext]_vars

\* a batch runs in the thread of its caller; every GET has a timeout and
\* every sleep is finite
DownloadLiveSpec == DownloadSpec /\ WF_vars(DlNext)

(***************************************************************************)
(* utils.sanitize_domain                                                   *)
(***************************************************************************)
Www == <<"w", "w", "w", ".">>

\* the characters the pattern \w matches in a str: the ASCII letters, the
\* digits, "_" and, re.UNICODE being the default, every other letter
WordChars == Letters \cup Digits \cup {"_"} \cup NonAscii

\* domain[4:] when domain starts with "www."
StripWww[domain \in Strs] == IF StartsWith[domain, Www] THEN Drop[domain, 4] ELSE domain

\* domain.replace(':', '_')
ReplaceColon[domain \in Strs] ==
    [i \in 1..Len(domain) |-> IF domain[i] = ":" THEN "_" ELSE domain[i]]

\* re.sub(r'[^\w\.\-]', '_', domain)
ReSub[domain \in Strs] ==
    [i \in 1..Len(domain) |->
        IF domain[i] \in WordChars \cup {".", "-"} THEN domain[i] ELSE "_"]

\* sanitize_domain(url); it has no try, so urlparse's ValueError is raised
sanitize_domain(url) ==
    IF urlparse[url, <<>>].err
    THEN [done |-> TRUE, raised |-> TRUE, domain |-> <<>>]
    ELSE [done |-> TRUE, raised |-> FALSE,
          domain |-> ReSub[ReplaceColon[StripWww[urlparse[url, <<>>].netloc]]]]

\* longest host, after "www." prefixes, of the URLs given to sanitize_domain
MaxHost == 2

\* the characters of these hosts
SanChars == {"e", "P", "1", ".", "-", "_", ":", "@", "!", "U+00E9"}

SanHosts ==
    {p \o h : p \in {<<>>, Www, Www \o Www},
              h \in UNION {[1..n -> SanChars] : n \in 0..MaxHost}}

\* URLs with and without a scheme, with and without a path
SanUrls ==
    {s \o h \o t : s \in {<<"h", ":", "/", "/">>, <<>>}, h \in SanHosts,
                   t \in {<<>>, <<"/", "a">>}}

\* a call of sanitize_domain
Sanitize ==
    /\ ~san_result.done
    /\ san_result' = sanitize_domain(san_url)
    /\ UNCHANGED <<crawlvars, pc, unslept, dlvars, answers, san_url, findervars,
                   runvars, sessionvars>>

SanitizeInit ==
    /\ base_url = U_A
    /\ max_depth = 0
    /\ delay = 0
    /\ site = SiteNone
    /\ Constructed
    /\ dir_creatable = TRUE
    /\ NoSession
    /\ answers = <<>>
    /\ san_url \in SanUrls
    /\ san_result = [done |-> FALSE, raised |-> FALSE, domain |-> <<>>]

SanitizeNext == Sanitize

SanitizeSpec == SanitizeInit /\ [][SanitizeNext]_vars

(***************************************************************************)
(* simple_pdf_finder.find_all_pdfs, run after the crawl on the same site   *)
(***************************************************************************)

\* what the try block of find_all_pdfs gets from session.get and
\* BeautifulSoup: the parsed body, whatever the status, or an exception
FinderResponses(url) ==
    IF ~Sendable(url) THEN {"error"}
    ELSE IF Answer(url) = "any" THEN {"body", "error"}
    ELSE IF Answer(url) = "error" THEN {"error"}
    ELSE {"body"}

\* the body of the for loop of find_all_pdfs on one resolved link: urlparse
\* comes first, then the PDF test, then the scope test
FinderKind(full_url, visited) ==
    IF full_url = JoinError THEN "raise"
    ELSE IF urlparse[full_url, <<>>].err THEN "raise"
    ELSE IF is_pdf(full_url) THEN "pdf"
    ELSE IF /\ ValidParsed(urlparse[full_url, <<>>], urlparse[base_url, <<>>].path) = "yes"
            /\ full_url \notin visited
         THEN "page"
    ELSE "skip"

\* The for loop of find_all_pdfs over hrefs[i..]: it adds to pdfs and appends
\* to the queue as it goes, and an exception leaves both as they are then.
RECURSIVE FinderLoop(_, _, _, _, _, _)

FinderStep(url, hrefs, i, q, found, visited, full_url, kind) ==
    CASE kind = "raise" -> [queue |-> q, pdfs |-> found]
      [] kind = "pdf"   -> FinderLoop(url, hrefs, i + 1, q, found \cup {full_url}, visited)
      [] kind = "page"  -> FinderLoop(url, hrefs, i + 1, Append(q, full_url), found, visited)
      [] OTHER          -> FinderLoop(url, hrefs, i + 1, q, found, visited)

FinderLoop(url, hrefs, i, q, found, visited) ==
    IF i > Len(hrefs) THEN [queue |-> q, pdfs |-> found]
    ELSE FinderStep(url, hrefs, i, q, found, visited, Resolve[url, hrefs[i]],
                    FinderKind(Resolve[url, hrefs[i]], visited))

\* the try block of find_all_pdfs for url, popped from queue
FinderTry(url, resp) ==
    IF resp = "error" THEN [queue |-> Tail(f_queue), pdfs |-> f_pdfs]
    ELSE FinderLoop(url, Content(url), 1, Tail(f_queue), f_pdfs, f_visited \cup {url})

\* a while loop that takes no URL as seen
Seen_never(url, visited) == FALSE

\* the test "if url in visited: continue" at the head of the while loop
Seen(url, visited) == url \in visited

\* find_all_pdfs up to its while loop, called where control is at from
FinderBegin(from) ==
    /\ pc = from
    /\ pc' = "f_loop"
    /\ f_queue' = <<base_url>>
    /\ UNCHANGED <<crawlvars, unslept, dlvars, runvars, sessionvars, answers, sanvars, f_visited, f_pdfs,
                   f_fetched, f_refetched>>

\* find_all_pdfs called after the crawl of the same site
FinderStart == FinderBegin("done")

\* find_all_pdfs called by the script simple_pdf_finder.py
FinderMain == FinderBegin("init")

\* one iteration of the while loop on a URL that is in visited: continue
FinderSkip ==
    /\ pc = "f_loop"
    /\ f_queue # <<>>
    /\ Seen(Head(f_queue), f_visited)
    /\ f_queue' = Tail(f_queue)
    /\ UNCHANGED <<crawlvars, pc, unslept, dlvars, runvars, sessionvars, answers, sanvars, f_visited,
                   f_pdfs, f_fetched, f_refetched>>

\* one iteration of the while loop on a URL that is not in visited
FinderFetch ==
    /\ pc = "f_loop"
    /\ f_queue # <<>>
    /\ ~Seen(Head(f_queue), f_visited)
    /\ \E url \in {Head(f_queue)} :
       \E resp \in FinderResponses(url) :
       \E r \in {FinderTry(url, resp)} :
         /\ f_visited' = f_visited \cup {url}
         /\ f_queue' = r.queue
         /\ f_pdfs' = r.pdfs
         /\ f_fetched' = f_fetched \cup {url}
         /\ f_refetched' = IF url \in f_fetched THEN f_refetched \cup {url}
                           ELSE f_refetched
    /\ UNCHANGED <<crawlvars, pc, unslept, dlvars, runvars, sessionvars, answers, sanvars>>

\* the while loop ends on the empty deque; find_all_pdfs returns pdfs, visited
FinderDone ==
    /\ pc = "f_loop"
    /\ f_queue = <<>>
    /\ pc' = "f_done"
    /\ UNCHANGED <<crawlvars, unslept, dlvars, othervars>>

\* the script on a site whose pages may answer or fail at each GET, from a
\* start URL with or without a scheme
FinderInit ==
    /\ base_url \in StartUrls \cup {R_A}
    /\ max_depth = 0
    /\ delay = 0
    /\ site \in Sites
    /\ Constructed
    /\ dir_creatable = TRUE
    /\ NoSession
    /\ answers = <<>>
    /\ NotCalled

FinderNext == FinderMain \/ FinderSkip \/ FinderFetch \/ FinderDone

FinderSpec == FinderInit /\ [][FinderNext]_vars

\* find_all_pdfs runs in one thread and every GET returns or raises (the
\* timeout is 10 s), so an enabled step is eventually taken
FinderLiveSpec == FinderSpec /\ WF_vars(FinderNext)

\* a max_depth that no page of Sites lies deeper than
VariantDepth == 4

\* both variants on a site whose pages each answer in one way
VariantInit ==
    /\ base_url \in StartUrls
    /\ max_depth \in 0..VariantDepth
    /\ delay = 0
    /\ site \in Sites
    /\ Constructed
    /\ dir_creatable = TRUE
    /\ NoSession
    /\ answers \in [DOMAIN site -> {"ok", "status", "error"}]
    /\ NotCalled

VariantNext == Next \/ FinderStart \/ FinderSkip \/ FinderFetch \/ FinderDone

VariantSpec == VariantInit /\ [][VariantNext]_vars

(***************************************************************************)
(* menu.run_crawler: session directory, crawl, list, download, metadata    *)
(***************************************************************************)

\* what pdfs_path may hold when the run starts: nothing (a new timestamp
\* name), or the files of an earlier run under the same custom session name
OldDirs ==
    {{}, {<<"x", ".", "p", "d", "f">>}, {<<"o", ".", "p", "d", "f">>, <<"a">>}}

\* the names in pdfs_path
DirNames == DOMAIN files \cup old_files

\* Path(pdfs_path).glob('*.pdf')
Glob(names) == {n \in names : EndsWith[n, DotPdf]}

\* the if of run_crawler: download_pdfs is called when there are PDFs
RunDownload ==
    /\ pdf_list.exists
    /\ pdf_urls # {}
    /\ DownloadStart

\* the metadata of run_crawler: without a download the count stays 0, after
\* download_pdfs it is the number of *.pdf files in pdfs_path
SaveMetadata ==
    /\ pc \in {"done", "dl_done"}
    /\ pdf_list.exists
    /\ metadata' = [saved |-> TRUE,
                    pages_scanned |-> Cardinality(visited_urls),
                    pdfs_found |-> Cardinality(pdf_urls),
                    pdfs_downloaded |-> IF pc = "dl_done"
                                        THEN Cardinality(Glob(DirNames)) ELSE 0]
    /\ pc' = "run_done"
    /\ UNCHANGED <<crawlvars, unslept, dlvars, answers, sanvars, findervars,
                   old_files, sessionvars>>

\* create_session_directory has made pdfs_path, then the crawler is built
RunInit ==
    /\ base_url = U_A
    /\ max_depth = 0
    /\ delay \in 0..MaxDelay
    /\ site \in DlSites
    /\ Constructed
    /\ dir_creatable = TRUE
    /\ answers = <<>>
    /\ NotCalled
    /\ old_files \in OldDirs
    /\ metadata = NoMetadata
    /\ dirs = {}
    /\ sm = NoManager
    /\ deletions = {}
    /\ refusals = {}

RunNext ==
    \/ Next
    \/ SavePdfList
    \/ RunDownload \/ DownloadItem \/ DownloadEnd
    \/ SaveMetadata

RunSpec == RunInit /\ [][RunNext]_vars

(***************************************************************************)
(* session_manager: browsing and deleting sessions                         *)
(***************************************************************************)

\* the sessions under data/, each with the age in days of its timestamp
AllSessions ==
    {[name |-> "s1", age |-> 1], [name |-> "s2", age |-> 10], [name |-> "s3", age |-> 40]}

\* the characters str.strip() removes
Whitespace == {" ", "\t"}

RECURSIVE lstrip(_)
lstrip(s) == IF s # <<>> /\ Head(s) \in Whitespace THEN lstrip(Tail(s)) ELSE s

RECURSIVE rstrip(_)
rstrip(s) ==
    IF s # <<>> /\ s[Len(s)] \in Whitespace THEN rstrip(SubSeq(s, 1, Len(s) - 1)) ELSE s

\* s.strip()
strip(s) == rstrip(lstrip(s))

DELETE == <<"D", "E", "L", "E", "T", "E">>

\* what the user may type at "Type 'DELETE' to confirm: "
ConfirmInputs ==
    {DELETE, <<" ">> \o DELETE, DELETE \o <<" ", "\t">>,
     <<"d", "e", "l", "e", "t", "e">>, <<>>, DELETE \o <<" ", "x">>}

\* a confirmation that takes any text
Confirmed_nonempty(confirmation) == strip(confirmation) # <<>>

\* the test confirmation.strip() == 'DELETE'
Confirmed(confirmation) == strip(confirmation) = DELETE

\* to_delete of delete_old_sessions_menu for the stripped choice
ToDelete(choice, sessions) ==
    CASE choice = "1" -> {x \in sessions : x.age > 7}
      [] choice = "2" -> {x \in sessions : x.age > 30}
      [] choice = "3" -> sessions
      [] OTHER        -> {}

\* delete_session on each session of sel: rmtree of the directories that exist
delete_session(sel) == dirs \ sel

\* the deletions recorded for the sessions of sel that existed
Deleted(sel, confirmation) == {[dir |-> x, typed |-> confirmation] : x \in sel \cap dirs}

\* one pass of the loop of browse_sessions_menu: list the sessions, read a
\* choice ("n" stands for the number of a listed session)
BrowseChoice ==
    /\ sm.at = "browse"
    /\ IF dirs = {} THEN sm' = [at |-> "closed", sel |-> {}]
       ELSE \E choice \in {"0", "d", "n"} :
              CASE choice = "0" -> sm' = [at |-> "closed", sel |-> {}]
                [] choice = "d" -> sm' = [at |-> "bulk", sel |-> dirs]
                [] OTHER        -> \E x \in dirs : sm' = [at |-> "detail", sel |-> {x}]
    /\ UNCHANGED <<crawlvars, pc, unslept, dlvars, answers, sanvars, findervars,
                   runvars, dirs, deletions, refusals>>

\* one pass of the loop of session_detail_menu that leaves the menu: back,
\* re-run, or delete
DetailChoice ==
    /\ sm.at = "detail"
    /\ \E choice \in {"0", "r", "d"} :
         CASE choice = "0" -> sm' = [at |-> "browse", sel |-> {}]
           [] choice = "r" -> sm' = [at |-> "closed", sel |-> {}]
           [] OTHER        -> sm' = [at |-> "confirm_one", sel |-> sm.sel]
    /\ UNCHANGED <<crawlvars, pc, unslept, dlvars, answers, sanvars, findervars,
                   runvars, dirs, deletions, refusals>>

\* delete_session_interactive from its input on; session_detail_menu breaks
\* when it returns True and goes on when it returns False
ConfirmOne ==
    /\ sm.at = "confirm_one"
    /\ \E confirmation \in ConfirmInputs :
         IF Confirmed(confirmation)
         THEN /\ dirs' = delete_session(sm.sel)
              /\ deletions' = deletions \cup Deleted(sm.sel, confirmation)
              /\ sm' = IF sm.sel \cap dirs # {} THEN [at |-> "browse", sel |-> {}]
                       ELSE [at |-> "detail", sel |-> sm.sel]
              /\ UNCHANGED refusals
         ELSE /\ refusals' = refusals \cup {confirmation}
              /\ sm' = [at |-> "detail", sel |-> sm.sel]
              /\ UNCHANGED <<dirs, deletions>>
    /\ UNCHANGED <<crawlvars, pc, unslept, dlvars, answers, sanvars, findervars,
                   runvars>>

\* delete_old_sessions_menu up to its confirmation prompt
BulkChoice ==
    /\ sm.at = "bulk"
    /\ \E choice \in {"0", "1", "2", "3", "x"} :
         IF ToDelete(choice, sm.sel) = {}
         THEN sm' = [at |-> "browse", sel |-> {}]
         ELSE sm' = [at |-> "confirm_bulk", sel |-> ToDelete(choice, sm.sel)]
    /\ UNCHANGED <<crawlvars, pc, unslept, dlvars, answers, sanvars, findervars,
                   runvars, dirs, deletions, refusals>>

\* delete_old_sessions_menu from its confirmation prompt on
ConfirmBulk ==
    /\ sm.at = "confirm_bulk"
    /\ \E confirmation \in ConfirmInputs :
         IF Confirmed(confirmation)
         THEN /\ dirs' = delete_session(sm.sel)
              /\ deletions' = deletions \cup Deleted(sm.sel, confirmation)
              /\ UNCHANGED refusals
         ELSE /\ refusals' = refusals \cup {confirmation}
              /\ UNCHANGED <<dirs, deletions>>
    /\ sm' = [at |-> "browse", sel |-> {}]
    /\ UNCHANGED <<crawlvars, pc, unslept, dlvars, answers, sanvars, findervars,
                   runvars>>

\* browse_sessions_menu is entered with three sessions on disk
SessionInit ==
    /\ base_url = U_A
    /\ max_depth = 0
    /\ delay = 0
    /\ site = SiteNone
    /\ Constructed
    /\ dir_creatable = TRUE
    /\ answers = <<>>
    /\ NotCalled
    /\ old_files = {}
    /\ metadata = NoMetadata
    /\ dirs = AllSessions
    /\ sm = [at |-> "browse", sel |-> {}]
    /\ deletions = {}
    /\ refusals = {}

SessionNext == BrowseChoice \/ DetailChoice \/ ConfirmOne \/ BulkChoice \/ ConfirmBulk

SessionSpec == SessionInit /\ [][SessionNext]_vars

(***************************************************************************)
(* Properties of the crawl                                                 *)
(***************************************************************************)
Netloc(u) == urlparse[u, <<>>].netloc
Path(u) == urlparse[u, <<>>].path

\* C1 - scope containment: every URL in visited_urls, and every URL ever put
\* into the deque, has the netloc of the start URL and a path that has the
\* start URL's path as a literal prefix.
C1_ScopeContainment ==
    \A u \in visited_urls \cup enqueued \cup QueueUrls(queue) :
        /\ Netloc(u) = Netloc(base_url)
        /\ StartsWith[Path(u), Path(base_url)]

\* a finished crawl of SiteScope from http://e/a whose root page, carrying
\* links to http://o/a and /c, was processed; /ax was accepted by the
\* literal prefix test
C1_Witness ==
    /\ pc = "done" /\ site = SiteScope /\ base_url = U_A
    /\ U_A \in fetched \ failed
    /\ U_AX \in visited_urls /\ U_AB \in visited_urls

\* C2 - termination: every crawl reaches Done (the deque is empty and the
\* loop has exited), whatever fetches succeed or fail.
C2_Termination == <>(pc = "done" /\ queue = <<>>)

\* a crawl that ended after both successful and failed fetches
C2_Witness ==
    /\ pc = "done" /\ queue = <<>>
    /\ failed # {} /\ fetched \ failed # {} /\ Cardinality(fetched) >= 3

\* the links a page offers for traversal: every href of its body that
\* resolves and is classified as a page
PageLinks(p) ==
    {l \in {Resolve[p, Content(p)[i]] : i \in 1..Len(Content(p))} : KindOf(l) = "page"}

\* the URLs within link distance k of the start URL
RECURSIVE Within(_)
Within(k) ==
    IF k < 0 THEN {}
    ELSE IF k = 0 THEN {base_url}
    ELSE Within(k - 1) \cup UNION {PageLinks(p) : p \in Within(k - 1)}

\* C3 - depth boundary: no page further than max_depth links from the root
\* is fetched; with max_depth = 0 the root is the only page fetched, once.
C3_DepthBoundary ==
    /\ fetched \subseteq Within(max_depth)
    /\ max_depth = 0 =>
         /\ fetched \subseteq {base_url}
         /\ refetched = {}
         /\ pc = "done" => fetched = {base_url}

\* a finished crawl that found a page beyond max_depth and did not fetch it,
\* and a finished crawl with max_depth = 0 on a root that has page links
C3_Witness ==
    /\ pc = "done"
    /\ \/ max_depth = 1 /\ visited_urls \ Within(1) # {} /\ fetched = Within(1)
       \/ max_depth = 0 /\ visited_urls # {base_url}

\* C4 - at-most-once fetch: no GET is issued twice for the same URL, and no
\* two GETs are issued for URLs that differ only by their fragment.
C4_AtMostOnceFetch ==
    /\ refetched = {}
    /\ \A u, v \in fetched : SplitFragment[u] = SplitFragment[v] => u = v

\* C5 - fragment normalization: every URL stored in visited_urls, put into
\* the deque, fetched or stored in pdf_urls has had its fragment stripped,
\* the start URL included.
C5_FragmentStripped ==
    \A u \in visited_urls \cup enqueued \cup fetched \cup pdf_urls : SplitFragment[u] = u

\* the resolved links of the pages that get_page_links processed to the end
LinksSeen ==
    UNION {{Resolve[p, Content(p)[i]] : i \in 1..Len(Content(p))} : p \in fetched \ failed}

\* C6 - PDF scope-independence: every link of a successfully fetched page
\* whose URL ends in .pdf (any case) is in pdf_urls, whatever its domain and
\* path.
C6_PdfScopeIndependence ==
    \A l \in LinksSeen : EndsWith[Lower[l], DotPdf] => l \in pdf_urls

\* a crawl from http://e/a that collected a PDF of another domain and a PDF
\* of the scope domain outside the path prefix
C6_Witness ==
    /\ base_url = U_A /\ site = SiteScope /\ pc = "done"
    /\ U_OPDF \in pdf_urls /\ U_CPDF \in pdf_urls

\* the scope test of section 4.1 on the parts of a URL
InScope(u) == Netloc(u) = Netloc(base_url) /\ StartsWith[Path(u), Path(base_url)]

\* the PDF test of section 4.1: the path component ends in .pdf (any case)
PathIsPdf(u) == EndsWith[Lower[Path(u)], DotPdf]

\* C7 - PDF classification rule: a link of a processed page is collected as
\* a PDF iff the path component of its URL ends in .pdf (any case); any
\* other link is a page (marked visited) iff it is in scope.
C7_PdfIffPathSuffix ==
    \A l \in LinksSeen :
        /\ l \in pdf_urls <=> PathIsPdf(l)
        /\ l \in visited_urls <=> (~PathIsPdf(l) /\ InScope(l))

\* C8 - visited monotonicity: every URL ever enqueued is still in
\* visited_urls, and the size of visited_urls is the number of distinct
\* fragment-stripped URLs ever enqueued.
C8_VisitedCount ==
    /\ enqueued \subseteq visited_urls
    /\ Cardinality(visited_urls) = Cardinality({SplitFragment[u] : u \in enqueued})

\* C9 - fetch-failure isolation: an iteration whose fetch fails only pops its
\* entry (no link is enqueued or marked visited, the loop goes on), and after
\* it the crawl still reaches Done with every enqueued entry dequeued.
C9_FailureIsolation ==
    /\ [][(pc = "loop" /\ last' = "fetch_failed") =>
             /\ queue' = Tail(queue)
             /\ visited_urls' = visited_urls
             /\ enqueued' = enqueued
             /\ pc' = "loop"]_vars
    /\ (last = "fetch_failed") ~> (pc = "done" /\ queue = <<>> /\ dequeued = enqueued)

\* a finished crawl of SiteDiamond in which the fetch of /a/b failed and
\* /a/f, which is only dequeued later, was fetched successfully
C9_Witness ==
    /\ pc = "done" /\ site = SiteDiamond /\ base_url = U_A
    /\ U_AB \in failed /\ U_AF \in fetched \ failed

\* C10 - root fetch failure: a crawl whose root fetch took the except branch
\* ends with pdf_urls empty and visited_urls = {start URL}.
C10_RootFailure ==
    (pc = "done" /\ base_url \in failed) => (pdf_urls = {} /\ visited_urls = {base_url})

\* the URLs within link distance k of the start URL over the links of the
\* pages that get_page_links processed to the end
RECURSIVE Reachable(_)
Reachable(k) ==
    IF k < 0 THEN {}
    ELSE IF k = 0 THEN {base_url}
    ELSE Reachable(k - 1) \cup
         UNION {PageLinks(p) : p \in Reachable(k - 1) \cap (fetched \ failed)}

\* C11 - discovery completeness within depth: when crawl has returned, every
\* page within max_depth links of the root over successfully fetched pages
\* was fetched, and every link ending in .pdf of every successfully fetched
\* page, those at depth max_depth included, is in pdf_urls.
C11_DiscoveryComplete ==
    pc = "done" =>
        /\ Reachable(max_depth) \subseteq fetched
        /\ \A p \in fetched \ failed : \A i \in 1..Len(Content(p)) :
              is_pdf(Resolve[p, Content(p)[i]]) => Resolve[p, Content(p)[i]] \in pdf_urls

\* a finished crawl of SiteDiamond with max_depth = 1 and no failure: /a/b,
\* at depth 1, was fetched and its PDF collected; /a/f, at depth 2, was not
C11_Witness ==
    /\ pc = "done" /\ site = SiteDiamond /\ base_url = U_A /\ max_depth = 1
    /\ failed = {} /\ fetched = {U_A, U_AB, U_AD}
    /\ U_PDF \in pdf_urls /\ U_AF \in visited_urls

\* what run_crawler stores as metadata['pages_scanned'] and crawl prints as
\* "Total pages crawled"
pages_scanned == Cardinality(visited_urls)

\* C12 - reported page count: after a crawl with max_depth >= 0 the count
\* reported as pages scanned is the number of pages a GET was issued for.
C12_PagesScanned ==
    (pc = "done" /\ max_depth >= 0) => pages_scanned = Cardinality(fetched)

\* the next step of the loop of crawl issues a GET
NextIsFetch ==
    /\ pc = "loop" /\ queue # <<>>
    /\ ~TooDeep(Head(queue)[2]) /\ Sendable(Head(queue)[1])

\* C13 - crawl rate limiting: whenever crawl is about to issue a GET after an
\* earlier one, succeeded or failed, a sleep of delay seconds has taken place
\* since that GET.
C13_CrawlRateLimit == (NextIsFetch /\ fetched # {}) => ~unslept

\* a crawl about to fetch a third page after a failed fetch
C13_Witness ==
    /\ NextIsFetch /\ last = "fetch_failed"
    /\ Cardinality(fetched) >= 2 /\ fetched \ failed # {}

\* C19 - ConfigError: in a run that was started with an invalid configuration
\* no GET is issued.
C19_ConfigError == InvalidConfig => fetched = {}

\* C20 - per-invocation crawl state: every invocation of crawl starts from
\* visited_urls = {start URL} and an empty pdf_urls.
C20_FreshCrawlState ==
    last = "start" => (visited_urls = {base_url} /\ pdf_urls = {})

(***************************************************************************)
(* Properties of the download batches                                      *)
(***************************************************************************)

\* download_pdfs is running or has returned
InDownloadPdfs == pc \in {"dl_loop", "dl_done"}

\* C14 - download rate limiting: whenever download_pdfs is about to issue the
\* GET of an item after the first, a sleep of delay seconds has taken place
\* since the GET of the item before, whether that item succeeded or failed.
C14_DownloadRateLimit ==
    (pc = "dl_loop" /\ 1 < dl_i /\ dl_i <= Len(dl_order)) => ~unslept

\* C15 - download isolation: the URLs attempted so far are the first items
\* of the batch, each once and in the order of the batch, whatever failed;
\* a finished batch attempted every URL; and a batch that was started always
\* runs to its end.
C15_DownloadIsolation ==
    /\ [](got = SubSeq(dl_order, 1, Len(got)))
    /\ [](pc \in {"dl_done", "file_done"} => got = dl_order)
    /\ [](\A i, j \in 1..Len(got) : i # j => got[i] # got[j])
    /\ (pc \in {"dl_loop", "file_loop"}) ~> (pc \in {"dl_done", "file_done"})

\* a finished batch of four items in which the second failed and the fourth
\* was written
C15_Witness ==
    /\ pc = "dl_done" /\ Len(got) = 4
    /\ got[2] \in dl_failed
    /\ \E f \in DOMAIN files : files[f].url = got[4] /\ files[f].complete

\* C16 - failed downloads do not corrupt written files: every file of the
\* output directory holds a complete response body.
C16_AtomicWrite == \A f \in DOMAIN files : files[f].complete

\* the last path segment of the URL of item k
Segment(k) == Basename[Path(got[k])]

\* item k was given a fallback name
IsFallback(k) == Segment(k) = <<>> \/ ~EndsWith[Segment(k), DotPdf]

\* C17 - file name derivation in download_pdfs: the name of item k is the
\* last path segment of its URL, or document_k.pdf when that segment is empty
\* or does not end in .pdf; it is never empty, always ends in .pdf, and no
\* two fallback names of a batch are equal.
C17_FilenameDerivation ==
    InDownloadPdfs =>
      /\ \A k \in 1..Len(named) :
           /\ named[k] # <<>>
           /\ EndsWith[named[k], DotPdf]
           /\ named[k] = IF IsFallback(k)
                         THEN <<"d", "o", "c", "u", "m", "e", "n", "t", "_">>
                                  \o ToStr[k] \o <<".", "p", "d", "f">>
                         ELSE Segment(k)
      /\ \A j, k \in 1..Len(named) :
           (j # k /\ IsFallback(j) /\ IsFallback(k)) => named[j] # named[k]

\* a finished batch with two fallback names (a suffix in the query only, an
\* upper-case suffix) and two names taken from the path
C17_Witness ==
    /\ pc = "dl_done" /\ site = SiteNames /\ Len(named) = 4
    /\ IsFallback(1) /\ ~IsFallback(2) /\ ~IsFallback(3) /\ IsFallback(4)

\* C18 - download order: download_pdfs issues its GETs for URLs of pdf_urls
\* in ascending order of URL, whatever the order they were found in.
C18_DownloadOrder ==
    InDownloadPdfs =>
      /\ \A k \in 1..Len(got) : got[k] \in pdf_urls
      /\ \A j, k \in 1..Len(got) : j < k => StrLess[got[j], got[k]]
      /\ pc = "dl_done" => {got[k] : k \in 1..Len(got)} = pdf_urls

\* a finished batch over the PDFs of SiteNames, whose page lists
\* http://e/a/x.pdf first and http://e/a/b?.pdf last
C18_Witness ==
    /\ pc = "dl_done" /\ site = SiteNames /\ Len(got) = 4
    /\ got[1] = U_QPDF /\ got[2] = U_PDF /\ got[3] = U_OXPDF /\ got[4] = U_OPDF

(***************************************************************************)
(* Invariants of the frontier                                              *)
(***************************************************************************)

\* C21 - PDF assets are terminal: no URL that is_pdf accepts, the start URL
\* apart, is ever put into the deque or fetched as a page, and pdf_urls and
\* visited_urls share no URL but possibly the start URL.
C21_PdfTerminal ==
    /\ \A u \in (enqueued \cup fetched \cup QueueUrls(queue)) \ {base_url} :
          ~is_pdf(u) /\ u \notin pdf_urls
    /\ (pdf_urls \cap visited_urls) \subseteq {base_url}

\* a finished crawl of SiteScope that collected an in-scope PDF and an
\* out-of-path PDF and fetched two pages or more
C21_Witness ==
    /\ pc = "done" /\ site = SiteScope /\ base_url = U_A
    /\ U_PDF \in pdf_urls /\ U_CPDF \in pdf_urls
    /\ Cardinality(fetched) >= 2 /\ U_PDF \notin visited_urls

\* C24 - frontier depth invariant: with max_depth >= 0 every entry of the
\* deque has a depth of at most max_depth.
C24_FrontierDepth ==
    max_depth >= 0 => \A i \in 1..Len(queue) : queue[i][2] <= max_depth

\* C25 - frontier/visited consistency: every URL in the deque is in
\* visited_urls, and no URL is appended to the deque twice in a run.
C25_FrontierVisited ==
    /\ QueueUrls(queue) \subseteq visited_urls
    /\ \A i, j \in 1..Len(enq_order) : i # j => enq_order[i][1] # enq_order[j][1]
    /\ \A i, j \in 1..Len(queue) : i # j => queue[i][1] # queue[j][1]

\* a crawl of SiteDiamond in which /a/f, linked from /a/b and from /a/d, and
\* the root, linked back from /a/b, were met again after their enqueueing
C25_Witness ==
    /\ site = SiteDiamond /\ base_url = U_A /\ pc = "done"
    /\ {U_AB, U_AD, U_AF} \subseteq fetched \ failed

\* <<Reachable(0), ..., Reachable(n)>>, built from layers = <<Reachable(0)>>
RECURSIVE Layers(_, _)
Layers(layers, n) ==
    IF Len(layers) > n THEN layers
    ELSE Layers(Append(layers,
                       layers[Len(layers)] \cup
                       UNION {PageLinks(p) : p \in layers[Len(layers)] \cap (fetched \ failed)}),
                n)

\* the least k with u in layers[k + 1], and -1 when u is in no layer
Dist(layers, u) ==
    IF \E k \in 1..Len(layers) : u \in layers[k]
    THEN (CHOOSE k \in 1..Len(layers) :
              u \in layers[k] /\ \A j \in 1..(k - 1) : u \notin layers[j]) - 1
    ELSE -1

\* C26 - BFS order: the entries are popped in the order they were appended,
\* so the depths of the popped entries never decrease, and the depth stored
\* with a URL is its least link distance from the root over the pages that
\* were fetched.
C26_BfsOrder ==
    /\ Len(deq_order) <= Len(enq_order)
    /\ deq_order = SubSeq(enq_order, 1, Len(deq_order))
    /\ \A i, j \in 1..Len(deq_order) : i < j => deq_order[i][2] <= deq_order[j][2]
    /\ \E layers \in {Layers(<<{base_url}>>, MaxDepth + 1)} :
          \A k \in 1..Len(enq_order) : enq_order[k][2] = Dist(layers, enq_order[k][1])

\* a finished crawl of SiteDiamond to depth 2 whose pages all loaded: /a/f,
\* reached over /a/b and /a/d, was popped after both with depth 2
C26_Witness ==
    /\ pc = "done" /\ site = SiteDiamond /\ base_url = U_A /\ max_depth = 2
    /\ failed = {} /\ Len(deq_order) = 5
    /\ deq_order[4] = <<U_AF, 2>> /\ deq_order[5] = <<U_AX, 3>>

\* C27 - partial results survive failures: pdf_urls only grows; no step of
\* the crawl, failed fetches included, removes a URL from it.
C27_PdfsAppendOnly == [][pdf_urls \subseteq pdf_urls']_vars

\* a finished crawl of SiteDiamond that kept the PDF of /a/b although the
\* fetch of /a/f, later, failed
C27_Witness ==
    /\ pc = "done" /\ site = SiteDiamond /\ base_url = U_A
    /\ U_PDF \in pdf_urls /\ U_AB \in fetched \ failed /\ U_AF \in failed

\* C28 - cancellation: after a keyboard interrupt during the crawl, crawl
\* has returned (with pdf_urls and visited_urls available to its caller).
C28_Cancellation == (last = "interrupted") => (pc = "done")

(***************************************************************************)
(* Properties of the saved list and of the output directory                *)
(***************************************************************************)

\* C23 - PDF list serialization: the saved list holds exactly the URLs of
\* pdf_urls, one per line, each once, in strictly ascending order.
C23_PdfListSorted ==
    pdf_list.exists =>
      /\ {pdf_list.lines[k] : k \in 1..Len(pdf_list.lines)} = pdf_urls
      /\ Len(pdf_list.lines) = Cardinality(pdf_urls)
      /\ \A j, k \in 1..Len(pdf_list.lines) :
            j < k => StrLess[pdf_list.lines[j], pdf_list.lines[k]]

\* the list saved for SiteNames, whose four PDFs were found in another order
C23_Witness ==
    /\ pdf_list.exists /\ site = SiteNames /\ Len(pdf_list.lines) = 4
    /\ pdf_list.lines[1] = U_QPDF /\ pdf_list.lines[4] = U_OPDF

\* C29 as stated - FilesystemError: whenever download_pdfs is called and the
\* output directory cannot be created, the call raises to its caller, no
\* download GET was issued and no file was written.
C29_AlwaysRaises ==
    (~dir_creatable /\ pc \in {"dl_loop", "dl_done", "dl_raised"}) =>
      (pc = "dl_raised" /\ got = <<>> /\ files = <<>>)

\* C29 amended - FilesystemError: when download_pdfs is called with the output
\* directory not creatable, no download GET is issued and no file is written;
\* with PDFs to download os.makedirs raises to the caller before the loop, and
\* with none the call returns before os.makedirs.
C29_MakedirsFails ==
    (~dir_creatable /\ pc \in {"dl_loop", "dl_done", "dl_raised"}) =>
      /\ pc = (IF pdf_urls = {} THEN "dl_done" ELSE "dl_raised")
      /\ mkdir_failed = (pdf_urls # {})
      /\ got = <<>> /\ files = <<>>

\* download_pdfs was called with PDFs to download and os.makedirs raised
C29_Witness == mkdir_failed /\ pc = "dl_raised" /\ Cardinality(pdf_urls) >= 2

(***************************************************************************)
(* Properties of sanitize_domain and of the two crawler variants           *)
(***************************************************************************)

\* the characters a directory name may hold
SafeChars == Letters \cup Digits \cup {".", "_", "-"}

\* the netloc with one leading "www." removed, ":" replaced by "_", and every
\* character outside SafeChars replaced by "_"
SanitizedNetloc(netloc) ==
    [i \in 1..Len(StripWww[netloc]) |->
        IF StripWww[netloc][i] = ":" \/ StripWww[netloc][i] \notin SafeChars
        THEN "_" ELSE StripWww[netloc][i]]

\* C22 - Domain sanitization: sanitize_domain(url) is the URL's netloc with one
\* leading "www." removed, every ":" replaced by "_" and every character
\* outside [A-Za-z0-9._-] replaced by "_", so it holds only such characters.
C22_SanitizeDomain ==
    san_result.done =>
      /\ ~san_result.raised
      /\ san_result.domain = SanitizedNetloc(urlparse[san_url, <<>>].netloc)
      /\ \A i \in 1..Len(san_result.domain) : san_result.domain[i] \in SafeChars

\* C30 - Crawler variants agree: with a max_depth that no page lies deeper
\* than, find_all_pdfs and PDFCrawler.crawl end with the same PDFs and the
\* same visited set on the same site, whatever its pages answer.
C30_VariantsAgree ==
    (pc = "f_done" /\ max_depth = VariantDepth) =>
      (f_pdfs = pdf_urls /\ f_visited = visited_urls)

(***************************************************************************)
(* Properties of find_all_pdfs                                             *)
(***************************************************************************)

\* C31 - find_all_pdfs: no URL is fetched twice, the function returns on
\* every site, and the visited set it returns is the set of the URLs it
\* called session.get on.
C31_FinderOnce ==
    /\ [](f_refetched = {})
    /\ [](pc = "f_done" => f_visited = f_fetched)
    /\ <>(pc = "f_done" /\ f_queue = <<>>)

\* a URL sits in the queue twice after three pages were fetched
C31_Witness ==
    /\ site = SiteDiamond /\ pc = "f_loop"
    /\ Len(f_queue) = 2 /\ f_queue[1] = f_queue[2]
    /\ Cardinality(f_fetched) >= 3

(***************************************************************************)
(* Properties of the session                                               *)
(***************************************************************************)

\* the URLs whose item of download_pdfs ran to its end
Succeeded == {got[k] : k \in 1..Len(got)} \ dl_failed

\* C32 - Downloaded count: the saved pdfs_downloaded is the number of PDF URLs
\* whose download succeeded in the run, and it is at most pdfs_found.
C32_DownloadedCount ==
    metadata.saved =>
      /\ metadata.pdfs_downloaded = Cardinality(Succeeded)
      /\ metadata.pdfs_downloaded <= metadata.pdfs_found

\* C33 as stated - Deletion needs confirmation: a session directory is gone
\* only if the text typed at the confirmation prompt of its delete action was
\* exactly DELETE.
C33_ExactDelete ==
    /\ \A x \in AllSessions \ dirs : \E d \in deletions : d.dir = x
    /\ \A d \in deletions : d.typed = DELETE

\* C33 amended - Deletion needs confirmation: a session directory is gone only
\* if the text typed at the confirmation prompt of its delete action was
\* DELETE once leading and trailing whitespace is removed; after any other
\* text, and after a cancel, every directory is still there.
C33_DeleteConfirmed ==
    /\ \A x \in AllSessions \ dirs : \E d \in deletions : d.dir = x
    /\ \A d \in deletions : strip(d.typed) = DELETE /\ d.dir \notin dirs
    /\ \A c \in refusals : strip(c) # DELETE

\* a single delete and a bulk delete went through, one of them on DELETE with
\* whitespace around it, after other texts were refused
C33_Witness ==
    /\ Cardinality(dirs) = 1
    /\ \E d \in deletions : d.typed # DELETE
    /\ \E d \in deletions : d.typed = DELETE
    /\ Cardinality(refusals) >= 2

====
